---- MODULE Spec2Model ----
(***************************************************************************)
(* Model of the mining job core of ngpool: Job construction from block     *)
(* templates (NewJobFromTemplates, NewMainChainJob, NewAuxChainJob, the     *)
(* merge-mining merkle packer), the multi-algo version rewrite              *)
(* (setAlgoVersion), flush evaluation (Job.SetFlush) and solve              *)
(* verification (Job.CheckSolves).                                          *)
(*                                                                         *)
(* A uint32 is the set of positions of its 1 bits (a subset of 0..31), so   *)
(* that all 32 bits are kept and the arithmetic wraps as Go's does.         *)
(***************************************************************************)
EXTENDS Integers, Sequences, FiniteSets, TLC

VARIABLES templates, ret, job, call

vars == <<templates, ret, job, call>>

----------------------------------------------------------------------------
(* Bounds of the model *)

MaxTemplates == 3
MaxHeight == 2
MaxTarget == 2
MaxNonce == 3
MaxVersionBits == 3
MaxBranch == 2
MaxJobs == 3
MaxPushes == 2
MaxOutages == 2
MaxServices == 2

----------------------------------------------------------------------------
(* 32-bit unsigned words *)

\* F applied to the value of v, which is evaluated once
Let(v, F(_)) == CHOOSE r \in {F(x) : x \in {v}} : TRUE

Bit32 == 0..31

RECURSIVE Pow2Rec(_)
Pow2Rec(n) == IF n = 0 THEN 1 ELSE 2 * Pow2Rec(n - 1)

Pow2Table == [n \in 0..30 |-> Pow2Rec(n)]

\* 2^n for n in 0..30
Pow2(n) == Pow2Table[n]

\* the word of a non-negative integer below 2^31
Bits(n) == Let(n, LAMBDA x : {i \in 0..30 : (x \div Pow2(i)) % 2 = 1})

\* the bits of the integers 0..255
ByteBits == [n \in 0..255 |-> {i \in 0..7 : (n \div Pow2(i)) % 2 = 1}]

\* the integer of a word below 2^16
Val(w) ==
    LET lo == CHOOSE n \in 0..255 : ByteBits[n] = {i \in w : i < 8}
        hi == CHOOSE n \in 0..255 : ByteBits[n] = {i - 8 : i \in {x \in w : x >= 8}}
    IN  lo + 256 * hi

And32(a, b) == a \cap b
Or32(a, b) == a \cup b
Xor32(a, b) == (a \ b) \cup (b \ a)
Not32(a) == Bit32 \ a
Shl32(a, s) == {i + s : i \in a} \cap Bit32

\* byte k (0 the least significant) of a word
Byte(w, k) == Val({i - 8 * k : i \in {x \in w : x \div 8 = k}})

\* the word of four bytes, least significant first, each reduced modulo 256
Word(b0, b1, b2, b3) ==
    Let(<<b0, b1, b2, b3>>,
        LAMBDA x : {i \in Bit32 : (x[i \div 8 + 1] \div Pow2(i % 8)) % 2 = 1})

\* the sum of two words whose values are given, byte by byte with carry
AddBytes(a, b) ==
    LET s0 == Byte(a, 0) + Byte(b, 0)
        s1 == Byte(a, 1) + Byte(b, 1) + s0 \div 256
        s2 == Byte(a, 2) + Byte(b, 2) + s1 \div 256
        s3 == Byte(a, 3) + Byte(b, 3) + s2 \div 256
    IN  Word(s0, s1, s2, s3)

\* a + b modulo 2^32 (the operands are evaluated once)
Add32(a, b) == Let(<<a, b>>, LAMBDA p : AddBytes(p[1], p[2]))

\* a - b modulo 2^32
Sub32(a, b) == Add32(a, Add32(Not32(b), {0}))

\* the product of two words whose values are given, by columns of byte products
MulBytes(a, b) ==
    LET A(i) == Byte(a, i)
        B(i) == Byte(b, i)
        c0 == A(0) * B(0)
        c1 == A(0) * B(1) + A(1) * B(0) + c0 \div 256
        c2 == A(0) * B(2) + A(1) * B(1) + A(2) * B(0) + c1 \div 256
        c3 == A(0) * B(3) + A(1) * B(2) + A(2) * B(1) + A(3) * B(0) + c2 \div 256
    IN  Word(c0, c1, c2, c3)

\* a * b modulo 2^32 (the operands are evaluated once)
Mul32(a, b) == Let(<<a, b>>, LAMBDA p : MulBytes(p[1], p[2]))

\* a < b, unsigned
Less32(a, b) ==
    /\ a # b
    /\ LET d == Xor32(a, b)
           top == CHOOSE i \in d : \A k \in d : k <= i
       IN  top \in b

RECURSIVE ModFrom(_, _, _, _)
\* long division, bit i of a downward; r < m throughout
ModFrom(a, m, i, r) ==
    IF i < 0 THEN r
    ELSE ModFrom(a, m, i - 1,
           Let(Or32(Shl32(r, 1), IF i \in a THEN {0} ELSE {}),
               LAMBDA r2 : IF 31 \in r \/ ~Less32(r2, m) THEN Sub32(r2, m) ELSE r2))

\* a % m for m # 0: the low k bits when m is 2^k, long division otherwise
Mod32(a, m) ==
    IF Cardinality(m) = 1
    THEN LET k == CHOOSE i \in m : TRUE IN {i \in a : i < k}
    ELSE ModFrom(a, m, 31, {})

\* binary.LittleEndian.PutUint32
PutUint32(w) == Let(w, LAMBDA x : [k \in 1..4 |-> Byte(x, k - 1)])

----------------------------------------------------------------------------
(* Chain and algo configuration (service.ChainConfig, service.Algo) *)

AlgoNames == {"sha256d", "scrypt"}

NoMultiAlgo ==
    [MultiAlgo |-> FALSE, MultiAlgoBitShift |-> 0, MultiAlgoBitWidth |-> 0,
     MultiAlgoMap |-> [n \in {} |-> 0]]

AlgoShifts == {0, 9}
AlgoWidths == {1, 2, 3, 4}

\* multi-algo layouts that give sha256d a code that fits in the width of the
\* field and give scrypt none
MultiAlgoLayouts ==
    UNION {
      UNION {
        {[MultiAlgo |-> TRUE, MultiAlgoBitShift |-> s, MultiAlgoBitWidth |-> w,
          MultiAlgoMap |-> [n \in {"sha256d"} |-> code]] :
            code \in 0..(Pow2(w) - 1)}
        : w \in AlgoWidths}
      : s \in AlgoShifts}

\* config.MultiAlgoMap[algo.Name]: a missing key reads as zero
AlgoCode(config, algo) ==
    IF algo \in DOMAIN config.MultiAlgoMap THEN config.MultiAlgoMap[algo] ELSE 0

\* 2 ^ width is Go's exclusive or, not a power
setAlgoVersion(version, config, algo) ==
    IF config.MultiAlgo
    THEN LET algoCode == Bits(AlgoCode(config, algo))
             mask == Shl32(Sub32(Xor32(Bits(2), Bits(config.MultiAlgoBitWidth)), {0}),
                           config.MultiAlgoBitShift)
             cleared == And32(version, Not32(mask))
         IN  Or32(cleared, Shl32(algoCode, config.MultiAlgoBitShift))
    ELSE version

\* uint32(template.Extras.ChainID): chain ids of the model are below 2^31
Uint32OfInt(n) == Bits(n)

\* the version word of NewAuxChainJob before the multi-algo rewrite
AuxPoWVersion(version, chainID) ==
    Or32(Or32(version, Shl32(Bits(1), 8)), Shl32(Uint32OfInt(chainID), 16))

\* the first four bytes of the aux blockHeader
AuxEncodedVersion(version, chainID, config, algo) ==
    PutUint32(setAlgoVersion(AuxPoWVersion(version, chainID), config, algo))

----------------------------------------------------------------------------
(* Currencies and templates *)

Currencies == {"BTC", "NMC", "DOGE", "XXX"}

\* the keys of service.CurrencyConfig
Registered == {"BTC", "NMC", "DOGE"}

\* service.CurrencyConfig: the chain code is the key, only NMC flushes as aux
CurrencyConfig ==
    [c \in Registered |->
        [Code |-> c, FlushAux |-> (c = "NMC"), MultiAlgo |-> FALSE,
         MultiAlgoBitShift |-> 0, MultiAlgoBitWidth |-> 0,
         MultiAlgoMap |-> [n \in {} |-> 0]]]

TemplateTypes == {"getblocktemplate", "getblocktemplate_aux", "getwork"}

\* TemplateKey
TemplateKey(currency, type) == [Currency |-> currency, TemplateType |-> type]

\* template bytes that json.Unmarshal rejects
Garbage == [ok |-> FALSE]

\* BlockTemplate: the fields read by the job constructors
BlockTemplate(height, target, chainID) ==
    [ok |-> TRUE, Version |-> Bits(1), CurTime |-> 7, Height |-> height,
     Target |-> target, ChainID |-> chainID,
     PreviousBlockhash |-> <<0, 9>>, Bits |-> <<0, target>>,
     MerkleBranch |-> <<>>]

ChainIDs == {0, 1, 5, 42}

\* the chain id each daemon reports in its aux template
DaemonChainID == [c \in Registered |->
                    IF c = "NMC" THEN 1 ELSE IF c = "DOGE" THEN 42 ELSE 5]

\* a template map holds at most one template per currency (one daemon per
\* chain), so the chain codes of a job are pairwise distinct
MapOf(S, ty, val) ==
    [k \in {TemplateKey(c, ty[c]) : c \in S} |-> val[k.Currency]]

\* the templates a daemon may send under a key of the given type: only aux
\* templates carry a chain id
TemplatesOfType(type) ==
    {Garbage} \cup
    IF type = "getblocktemplate_aux"
    THEN {BlockTemplate(1, 1, id) : id \in ChainIDs}
    ELSE {BlockTemplate(1, 1, 0)}

\* maps that vary the keys, the chain ids and the decodability
BuildMaps ==
    UNION { UNION { {MapOf(S, ty, val) :
                        val \in {v \in [S -> UNION {TemplatesOfType(t) : t \in TemplateTypes}] :
                                    \A c \in S : v[c] \in TemplatesOfType(ty[c])}}
                    : ty \in [S -> TemplateTypes]}
            : S \in {T \in SUBSET Currencies : Cardinality(T) <= MaxTemplates} }

\* a BTC main chain with aux chains among the others
ChainMap(A, height, target) ==
    MapOf({"BTC"} \cup A,
          [c \in {"BTC"} \cup A |-> IF c = "BTC" THEN "getblocktemplate"
                                    ELSE "getblocktemplate_aux"],
          [c \in {"BTC"} \cup A |->
              BlockTemplate(height[c], target[c],
                            IF c = "BTC" THEN 0 ELSE DaemonChainID[c])])

AuxSets == {T \in SUBSET (Registered \ {"BTC"}) : Cardinality(T) + 1 <= MaxTemplates}

\* maps that vary the heights, and maps that vary the targets
OpMaps ==
    UNION { {ChainMap(A, h, [c \in {"BTC"} \cup A |-> 1]) :
                h \in [{"BTC"} \cup A -> 1..MaxHeight]}
            \cup
            {ChainMap(A, [c \in {"BTC"} \cup A |-> 1], t) :
                t \in [{"BTC"} \cup A -> 1..MaxTarget]}
            : A \in AuxSets }

TemplateMaps == BuildMaps \cup OpMaps

----------------------------------------------------------------------------
(* Job construction *)

Algo == "sha256d"

\* NewMainChainJob: the fields of MainChainJob the operations read
\* common.ReverseBytes
ReverseBytes(b) == [i \in 1..Len(b) |-> b[Len(b) + 1 - i]]

\* NewMainChainJob without the clean_jobs flag set
NewMainChainJobNotClean(tmpl, config, algo) ==
    [currencyConfig |-> config,
     height |-> tmpl.Height,
     bits |-> ReverseBytes(tmpl.Bits),
     time |-> PutUint32(Bits(tmpl.CurTime)),
     version |-> PutUint32(setAlgoVersion(tmpl.Version, config, algo)),
     prevBlockHash |-> ReverseBytes(tmpl.PreviousBlockhash),
     target |-> tmpl.Target,
     merkleBranch |-> tmpl.MerkleBranch,
     cleanJobs |-> FALSE]

NewMainChainJob(tmpl, config, algo) ==
    [currencyConfig |-> config,
     height |-> tmpl.Height,
     bits |-> ReverseBytes(tmpl.Bits),
     time |-> PutUint32(Bits(tmpl.CurTime)),
     version |-> PutUint32(setAlgoVersion(tmpl.Version, config, algo)),
     prevBlockHash |-> ReverseBytes(tmpl.PreviousBlockhash),
     target |-> tmpl.Target,
     merkleBranch |-> tmpl.MerkleBranch,
     cleanJobs |-> TRUE]

\* NewAuxChainJob without the check of the chain id
NewAuxChainJobNoNullCheck(tmpl, config, algo) ==
    [err |-> "",
     acj |-> [currencyConfig |-> config,
              height |-> tmpl.Height,
              target |-> tmpl.Target,
              chainID |-> tmpl.ChainID,
              blockHeader |->
                  [version |-> PutUint32(setAlgoVersion(
                                   Or32(Or32(tmpl.Version, Shl32(Bits(1), 8)),
                                        Shl32(Bits(tmpl.ChainID), 16)), config, algo)),
                   time |-> PutUint32(Bits(tmpl.CurTime))]]]

\* NewAuxChainJob: an error for chain id 0, else the AuxChainJob
NewAuxChainJob(tmpl, config, algo) ==
    IF tmpl.ChainID = 0
    THEN [err |-> "Null chainid"]
    ELSE [err |-> "",
          acj |-> [currencyConfig |-> config,
                   height |-> tmpl.Height,
                   target |-> tmpl.Target,
                   chainID |-> tmpl.ChainID,
                   blockHeader |->
                       [version |-> AuxEncodedVersion(tmpl.Version,
                                                      tmpl.ChainID, config, algo),
                        time |-> PutUint32(Bits(tmpl.CurTime))]]]

\* headerHash: the double SHA256 of the aux block header, kept symbolic
HeaderHash(acj) == <<"sha256d", acj.blockHeader, acj.currencyConfig.Code>>

\* heights[code] = h
SetHeight(heights, code, h) ==
    [c \in DOMAIN heights \cup {code} |-> IF c = code THEN h ELSE heights[c]]

NoMain == [currencyConfig |-> [Code |-> ""], height |-> 0, bits |-> <<>>,
           time |-> <<>>, version |-> <<>>, prevBlockHash |-> <<>>, target |-> 0,
           merkleBranch |-> <<>>, cleanJobs |-> FALSE]

\* the aux case of the switch: the error, or the aux chain added to the job
AddAuxChain(acc, chainConfig, a) ==
    IF a.err # "" THEN [acc EXCEPT !.err = a.err]
    ELSE [acc EXCEPT !.heights = SetHeight(@, chainConfig.Code, a.acj.height),
                     !.auxChains = Append(@, a.acj)]

\* the main case of the switch: the error, or the main chain set in the job
SetMainChain(acc, chainConfig, m) ==
    IF acc.mainJobSet
    THEN [acc EXCEPT !.err = "You can only have one base currency template"]
    ELSE [acc EXCEPT !.mainJobSet = TRUE,
                     !.heights = SetHeight(@, chainConfig.Code, m.height),
                     !.main = m]

\* the body of the range loop for one key
TemplateStep(acc, tmplKey, tmpl) ==
    IF ~tmpl.ok THEN [acc EXCEPT !.err = "Unable to deserialize template"]
    ELSE IF tmplKey.Currency \notin DOMAIN CurrencyConfig
    THEN [acc EXCEPT !.err = "No currency config"]
    ELSE IF tmplKey.TemplateType = "getblocktemplate_aux"
    THEN Let(NewAuxChainJob(tmpl, CurrencyConfig[tmplKey.Currency], Algo),
             LAMBDA a : AddAuxChain(acc, CurrencyConfig[tmplKey.Currency], a))
    ELSE IF tmplKey.TemplateType = "getblocktemplate"
    THEN Let(NewMainChainJob(tmpl, CurrencyConfig[tmplKey.Currency], Algo),
             LAMBDA m : SetMainChain(acc, CurrencyConfig[tmplKey.Currency], m))
    ELSE [acc EXCEPT !.err = "Unrecognized TemplateType"]

RECURSIVE TemplateLoop(_, _, _, _)
\* the range loop over the template map, visiting the keys in the given order
\* and returning at the first error
TemplateLoop(tmpls, order, i, acc) ==
    IF i > Len(order) \/ acc.err # "" THEN acc
    ELSE TemplateLoop(tmpls, order, i + 1,
           Let(acc, LAMBDA x : TemplateStep(x, order[i], tmpls[order[i]])))

----------------------------------------------------------------------------
(* The blockchain merkle packer *)

\* merkleSize is a Go int: the set of the 1 bits of a 64-bit word
Int64One == {0}
Double64(n) == {i + 1 : i \in n} \cap (0..63)
Uint32OfInt64(n) == n \cap Bit32

LCGMul == Bits(1103515245)
LCGAdd == Bits(12345)

\* the slot word of one aux chain, before the reduction modulo merkleSize
Slot(merkleNonce, chainID) ==
    LET s1 == Add32(Mul32(merkleNonce, LCGMul), LCGAdd)
        s2 == Add32(s1, Uint32OfInt(chainID))
    IN  Add32(Mul32(s2, LCGMul), LCGAdd)

MerkleNonce == {}

SlotTable == [id \in ChainIDs |-> Slot(MerkleNonce, id)]

SlotNum(mj, merkleSize) == Mod32(SlotTable[mj.chainID], Uint32OfInt64(merkleSize))

RECURSIVE FillSlots(_, _, _, _)
\* the inner loop: the filled table, or a collision at the first taken slot
FillSlots(auxChains, merkleSize, i, merkleBase) ==
    IF i > Len(auxChains) THEN [collision |-> FALSE, merkleBase |-> merkleBase]
    ELSE Let(SlotNum(auxChains[i], merkleSize),
             LAMBDA slotNum :
                IF slotNum \in DOMAIN merkleBase
                THEN [collision |-> TRUE, merkleBase |-> merkleBase]
                ELSE FillSlots(auxChains, merkleSize, i + 1,
                       [s \in DOMAIN merkleBase \cup {slotNum} |->
                           IF s = slotNum THEN HeaderHash(auxChains[i])
                           ELSE merkleBase[s]]))

RECURSIVE MerkleLoopQuadruple(_, _)
\* MerkleLoop growing the table fourfold on a collision
MerkleLoopQuadruple(auxChains, merkleSize) ==
    IF Len(auxChains) > 0 /\ Uint32OfInt64(merkleSize) = {}
    THEN [panic |-> TRUE, merkleSize |-> merkleSize, merkleBase |-> <<>>]
    ELSE IF FillSlots(auxChains, merkleSize, 1, <<>>).collision
    THEN MerkleLoopQuadruple(auxChains, Double64(Double64(merkleSize)))
    ELSE [panic |-> FALSE, merkleSize |-> merkleSize,
          merkleBase |-> FillSlots(auxChains, merkleSize, 1, <<>>).merkleBase]

RECURSIVE MerkleLoop(_, _)
\* MerkleLoop: at merkleSize 2^32 the modulus uint32(merkleSize) is zero and
\* the division panics (the allocation of the table fails no later)
MerkleLoop(auxChains, merkleSize) ==
    IF Len(auxChains) > 0 /\ Uint32OfInt64(merkleSize) = {}
    THEN [panic |-> TRUE, merkleSize |-> merkleSize, merkleBase |-> <<>>]
    ELSE Let(FillSlots(auxChains, merkleSize, 1, <<>>),
             LAMBDA f : IF f.collision
                        THEN MerkleLoop(auxChains, Double64(merkleSize))
                        ELSE [panic |-> FALSE, merkleSize |-> merkleSize,
                              merkleBase |-> f.merkleBase])

\* the merge mining blob spliced into the coinbase
MMCoinbase(auxChains, packed) ==
    IF Len(auxChains) > 0
    THEN [magic |-> <<250, 190, 109, 109>>,
          merkleSize |-> PutUint32(Uint32OfInt64(packed.merkleSize)),
          merkleNonce |-> PutUint32(MerkleNonce)]
    ELSE [magic |-> <<>>, merkleSize |-> <<>>, merkleNonce |-> <<>>]

\* createCoinbaseSplit: the halves of the coinbase around the extranonces; the
\* first carries the height and the merge mining blob
createCoinbaseSplit(height, mmCoinbase) ==
    [coinbase1 |-> <<height>> \o mmCoinbase.magic \o mmCoinbase.merkleSize
                      \o mmCoinbase.merkleNonce,
     coinbase2 |-> <<255>>]

NoJob == [built |-> FALSE]

ErrorResult(msg) ==
    [status |-> "error", err |-> msg, job |-> NoJob,
     merkleSize |-> {}, merkleBase |-> <<>>]

\* the Job returned once the packer has finished, or the panic of the packer
PackedJob(acc, packed) ==
    IF packed.panic
    THEN [status |-> "panic", err |-> "", job |-> NoJob,
          merkleSize |-> packed.merkleSize, merkleBase |-> <<>>]
    ELSE [status |-> "ok", err |-> "",
          merkleSize |-> packed.merkleSize,
          merkleBase |-> packed.merkleBase,
          job |-> [built |-> TRUE,
                   currencyConfig |-> acc.main.currencyConfig,
                   height |-> acc.main.height,
                   bits |-> acc.main.bits,
                   time |-> acc.main.time,
                   version |-> acc.main.version,
                   prevBlockHash |-> acc.main.prevBlockHash,
                   coinbase1 |-> createCoinbaseSplit(acc.main.height,
                                    MMCoinbase(acc.auxChains, packed)).coinbase1,
                   coinbase2 |-> createCoinbaseSplit(acc.main.height,
                                    MMCoinbase(acc.auxChains, packed)).coinbase2,
                   merkleBranch |-> acc.main.merkleBranch,
                   target |-> acc.main.target,
                   cleanJobs |-> acc.main.cleanJobs,
                   heights |-> acc.heights,
                   auxChains |-> acc.auxChains,
                   algo |-> Algo,
                   mmCoinbase |-> MMCoinbase(acc.auxChains, packed)]]

\* what follows the range loop
AfterTemplateLoop(acc) ==
    IF acc.err # "" THEN ErrorResult(acc.err)
    ELSE IF ~acc.mainJobSet THEN ErrorResult("Must have a main chain template")
    ELSE Let(MerkleLoop(acc.auxChains, Int64One), LAMBDA packed : PackedJob(acc, packed))

\* NewJobFromTemplates for one iteration order of the map
NewJobFromTemplates(tmpls, order) ==
    Let(TemplateLoop(tmpls, order, 1,
                     [err |-> "", mainJobSet |-> FALSE, heights |-> <<>>,
                      auxChains |-> <<>>, main |-> NoMain]),
        LAMBDA acc : AfterTemplateLoop(acc))

\* the orders in which a range loop may visit the keys
Orders(K) == {o \in [1..Cardinality(K) -> K] : \A k \in K : \E i \in DOMAIN o : o[i] = k}


----------------------------------------------------------------------------
(* Flush evaluation *)

NilValue == [kind |-> "nil"]
Int64Value(n) == [kind |-> "int64", int64 |-> n]
HeightsValue(h) == [kind |-> "heights", heights |-> h]

\* prev[code]: a missing key reads as zero
Lookup(prev, code) == IF code \in DOMAIN prev THEN prev[code] ELSE 0

RECURSIVE AuxFlush(_, _, _)
\* the loop over the aux chains: does one with FlushAux have a greater height
AuxFlush(j, prev, i) ==
    IF i > Len(j.auxChains) THEN FALSE
    ELSE LET aux == j.auxChains[i] IN
         IF aux.currencyConfig.FlushAux
               /\ aux.height > Lookup(prev, aux.currencyConfig.Code)
         THEN TRUE
         ELSE AuxFlush(j, prev, i + 1)

\* Job.SetFlush taking an equal main height for an advance
SetFlushGeq(j, lastJobSetFlush) ==
    IF lastJobSetFlush.kind = "heights"
    THEN LET prev == lastJobSetFlush.heights IN
         IF j.height >= Lookup(prev, j.currencyConfig.Code)
         THEN [drop |-> FALSE, val |-> Int64Value(j.height),
               job |-> [j EXCEPT !.cleanJobs = TRUE], writes |-> {"cleanJobs"}]
         ELSE [drop |-> TRUE, val |-> NilValue, job |-> j, writes |-> {}]
    ELSE [drop |-> FALSE, val |-> HeightsValue(j.heights), job |-> j, writes |-> {}]

\* Job.SetFlush: the two values returned, the job afterwards and the fields
\* of the job that the call assigns
SetFlush(j, lastJobSetFlush) ==
    IF lastJobSetFlush.kind = "heights"
    THEN LET prev == lastJobSetFlush.heights IN
         IF j.height > Lookup(prev, j.currencyConfig.Code)
         THEN [drop |-> FALSE, val |-> Int64Value(j.height),
               job |-> [j EXCEPT !.cleanJobs = TRUE], writes |-> {"cleanJobs"}]
         ELSE IF j.height < Lookup(prev, j.currencyConfig.Code)
         THEN [drop |-> TRUE, val |-> NilValue, job |-> j, writes |-> {}]
         ELSE IF AuxFlush(j, prev, 1)
         THEN [drop |-> FALSE, val |-> HeightsValue(j.heights),
               job |-> [j EXCEPT !.cleanJobs = TRUE], writes |-> {"cleanJobs"}]
         ELSE [drop |-> FALSE, val |-> HeightsValue(j.heights), job |-> j,
               writes |-> {}]
    ELSE [drop |-> FALSE, val |-> HeightsValue(j.heights), job |-> j, writes |-> {}]

\* the values a caller passes: nothing yet, or what a SetFlush returned
PrevHeights ==
    UNION {[D -> 1..MaxHeight] : D \in SUBSET Registered}

FlushInputs ==
    {NilValue} \cup {Int64Value(n) : n \in 1..MaxHeight}
               \cup {HeightsValue(h) : h \in PrevHeights}

----------------------------------------------------------------------------
(* Solve verification *)

RECURSIVE SumSeq(_)
SumSeq(s) == IF s = <<>> THEN 0 ELSE Head(s) + SumSeq(Tail(s))

\* the digests of the model are two bytes long, least significant first
Digest(n) == <<n % 256, n \div 256>>

\* Algo.PoWHash: a fixed function of the header bytes for each algorithm
PoWHash(name, header) ==
    Digest((SumSeq(header) + (IF name = "sha256d" THEN 0 ELSE 1)) % (MaxTarget + 2))

\* blockchain.HashToBig: the digest read as a little-endian integer
HashToBig(d) == d[1] + 256 * d[2]

RECURSIVE HashFrom(_, _, _)
HashFrom(b, i, h) ==
    IF i > Len(b) THEN h ELSE HashFrom(b, i + 1, (h * 31 + b[i] + 1) % 251)

\* the double SHA256 of the model: a digest that depends on every byte, on
\* their order and on their number
Sha256d(b) == Digest(HashFrom(b, 1, 7))

\* the sha256d hasher (a hash.Hash): its state is the bytes written since it
\* was made or last reset; Sum leaves the state as it is
NewHasher == <<>>
Write(hasher, b) == hasher \o b
Sum(hasher) == Sha256d(hasher)
Reset(hasher) == <<>>

RECURSIVE BranchLoop(_, _, _, _)
\* the loop over j.merkleBranch: each round writes the root and the branch
\* element into the hasher as it stands, takes the sum and resets the hasher
BranchLoop(merkleBranch, i, hasher, rootHash) ==
    IF i > Len(merkleBranch) THEN rootHash
    ELSE BranchLoop(merkleBranch, i + 1,
                    Reset(Write(Write(hasher, rootHash), merkleBranch[i])),
                    Sum(Write(Write(hasher, rootHash), merkleBranch[i])))

\* MainChainJob.GetBlockHeader: the header carries the time of the job
GetBlockHeader(j, nonce, coinbaseHash) ==
    j.version \o j.prevBlockHash
        \o BranchLoop(j.merkleBranch, 1, NewHasher, coinbaseHash)
        \o j.time \o j.bits \o nonce

\* the hex encoding of bytes: two digits, most significant first, for each byte
EncodeToString(b) ==
    [i \in 1..(2 * Len(b)) |->
        IF i % 2 = 1 THEN b[(i + 1) \div 2] \div 16 ELSE b[i \div 2] % 16]

\* the coinbase with the zero bytes in place of the extranonces
PlaceholderCoinbase(j) == j.coinbase1 \o <<0, 0, 0, 0, 0, 0, 0, 0>> \o j.coinbase2

\* Job.GetZCashStratumParams: the hasher still holds the coinbase when the
\* loop over the merkle branch starts
GetZCashStratumParams(j) ==
    [version |-> EncodeToString(j.version),
     prevBlockHash |-> EncodeToString(j.prevBlockHash),
     rootHash |-> EncodeToString(
                    BranchLoop(j.merkleBranch, 1,
                               Write(NewHasher, PlaceholderCoinbase(j)),
                               Sum(Write(NewHasher, PlaceholderCoinbase(j))))),
     time |-> EncodeToString(j.time),
     bits |-> EncodeToString(j.bits),
     cleanJobs |-> j.cleanJobs]

\* Job.GetStratumParams
GetStratumParams(j) ==
    [prevBlockHash |-> EncodeToString(j.prevBlockHash),
     coinbase1 |-> EncodeToString(j.coinbase1),
     coinbase2 |-> EncodeToString(j.coinbase2),
     merkleBranch |-> [i \in 1..Len(j.merkleBranch) |->
                          EncodeToString(j.merkleBranch[i])],
     version |-> EncodeToString(j.version),
     bits |-> EncodeToString(j.bits),
     time |-> EncodeToString(j.time),
     cleanJobs |-> j.cleanJobs]

\* the merkle root of checkSolSolve: the hasher is reset before the loop
SolutionRoot(j) ==
    BranchLoop(j.merkleBranch, 1,
               Reset(Write(NewHasher, PlaceholderCoinbase(j))),
               Sum(Write(NewHasher, PlaceholderCoinbase(j))))

\* the header that checkSolSolve hashes
SolutionHeader(j, solveData) ==
    j.version \o j.prevBlockHash \o SolutionRoot(j)
        \o <<0, 0>> \o solveData.nTime \o j.bits
        \o solveData.nonce1 \o solveData.nonce2 \o solveData.solution

\* the header that checkExtranonceSolve hashes
ExtranonceHeader(j, solveData) ==
    GetBlockHeader(j, solveData.nonce,
                   Sum(Write(NewHasher, j.coinbase1 \o solveData.extraNonce1
                                           \o solveData.extraNonce2 \o j.coinbase2)))

ExtranonceSolves ==
    {[type |-> "ExtranonceSolve", nonce |-> <<n>>, nTime |-> <<t>>,
      extraNonce1 |-> <<0>>, extraNonce2 |-> <<0>>] :
        n \in 0..MaxNonce, t \in {7, 8}}

SolutionSolves ==
    {[type |-> "SolutionSolve", nonce1 |-> <<n>>, nonce2 |-> <<0>>, nTime |-> <<t>>,
      solution |-> <<0>>] :
        n \in 0..MaxNonce, t \in {7, 8}}

SolveInputs == ExtranonceSolves \cup SolutionSolves \cup {[type |-> "string"]}

NoTarget == [set |-> FALSE, v |-> 0]
ShareTargets == {NoTarget} \cup {[set |-> TRUE, v |-> n] : n \in 1..(MaxTarget + 1)}

\* the calls of CheckSolves: the hash of the algorithm fails or not
SolveCalls ==
    {<<s, t, TRUE>> : s \in SolveInputs, t \in ShareTargets}
        \cup {<<s, NoTarget, FALSE>> : s \in SolveInputs}

BlockSolve(height, target, bigHsh) ==
    [height |-> height, target |-> target, powhash |-> bigHsh]

\* ret[code] = solve
PutSolve(solves, code, solve) ==
    [c \in DOMAIN solves \cup {code} |-> IF c = code THEN solve ELSE solves[c]]

SolveError(msg) ==
    [solves |-> <<>>, validShare |-> FALSE, currencies |-> <<>>, err |-> msg,
     bigHsh |-> 0, header |-> <<>>]

RECURSIVE extranonceAuxLoop(_, _, _, _)
\* the loop over the aux chains in checkExtranonceSolve
extranonceAuxLoop(j, bigHsh, i, r) ==
    IF i > Len(j.auxChains) THEN r
    ELSE LET mj == j.auxChains[i]
             code == mj.currencyConfig.Code
         IN  extranonceAuxLoop(j, bigHsh, i + 1,
               [solves |-> IF bigHsh <= mj.target
                           THEN PutSolve(r.solves, code,
                                         BlockSolve(mj.height, mj.target, bigHsh))
                           ELSE r.solves,
                currencies |-> Append(r.currencies, code)])

\* Job.checkExtranonceSolve comparing the main target strictly
checkExtranonceSolveStrict(j, solveData, shareTarget, hashOk) ==
    LET header == ExtranonceHeader(j, solveData) IN
    IF ~hashOk THEN SolveError("PoWHash")
    ELSE
      LET bigHsh == HashToBig(PoWHash(j.algo, header))
          validShare == shareTarget.set /\ bigHsh >= shareTarget.v
          code == j.currencyConfig.Code
          mainSolve == IF bigHsh < j.target
                       THEN PutSolve(<<>>, code, BlockSolve(j.height, j.target, bigHsh))
                       ELSE <<>>
          r == extranonceAuxLoop(j, bigHsh, 1,
                                 [solves |-> mainSolve, currencies |-> <<code>>])
      IN  [solves |-> r.solves, validShare |-> validShare,
           currencies |-> r.currencies, err |-> "", bigHsh |-> bigHsh,
           header |-> header]

\* Job.checkExtranonceSolve writing the submitted nTime into the header
checkExtranonceSolveSubmittedTime(j, solveData, shareTarget, hashOk) ==
    LET header == ExtranonceHeader([j EXCEPT !.time = solveData.nTime], solveData) IN
    IF ~hashOk THEN SolveError("PoWHash")
    ELSE
      LET bigHsh == HashToBig(PoWHash(j.algo, header))
          validShare == shareTarget.set /\ bigHsh >= shareTarget.v
          code == j.currencyConfig.Code
          mainSolve == IF bigHsh <= j.target
                       THEN PutSolve(<<>>, code, BlockSolve(j.height, j.target, bigHsh))
                       ELSE <<>>
          r == extranonceAuxLoop(j, bigHsh, 1,
                                 [solves |-> mainSolve, currencies |-> <<code>>])
      IN  [solves |-> r.solves, validShare |-> validShare,
           currencies |-> r.currencies, err |-> "", bigHsh |-> bigHsh,
           header |-> header]

\* Job.checkExtranonceSolve; hashOk: the algorithm's PoWHash returns no error
checkExtranonceSolve(j, solveData, shareTarget, hashOk) ==
    LET header == ExtranonceHeader(j, solveData) IN
    IF ~hashOk THEN SolveError("PoWHash")
    ELSE
      LET bigHsh == HashToBig(PoWHash(j.algo, header))
          validShare == shareTarget.set /\ bigHsh >= shareTarget.v
          code == j.currencyConfig.Code
          mainSolve == IF bigHsh <= j.target
                       THEN PutSolve(<<>>, code, BlockSolve(j.height, j.target, bigHsh))
                       ELSE <<>>
          r == extranonceAuxLoop(j, bigHsh, 1,
                                 [solves |-> mainSolve, currencies |-> <<code>>])
      IN  [solves |-> r.solves, validShare |-> validShare,
           currencies |-> r.currencies, err |-> "", bigHsh |-> bigHsh,
           header |-> header]

RECURSIVE solAuxLoop(_, _, _, _)
\* the loop over the aux chains in checkSolSolve
solAuxLoop(j, bigHsh, i, r) ==
    IF i > Len(j.auxChains) THEN r
    ELSE LET mj == j.auxChains[i]
             code == mj.currencyConfig.Code
         IN  solAuxLoop(j, bigHsh, i + 1,
               [solves |-> IF bigHsh <= mj.target
                           THEN PutSolve(r.solves, code,
                                         BlockSolve(mj.height, mj.target, bigHsh))
                           ELSE r.solves,
                currencies |-> Append(r.currencies, code)])

\* Job.checkSolSolve counting a share only when the main chain is solved
checkSolSolveShareNeedsSolve(j, solveData, shareTarget, hashOk) ==
    LET header == SolutionHeader(j, solveData) IN
    IF ~hashOk THEN SolveError("PoWHash")
    ELSE
      LET bigHsh == HashToBig(PoWHash("sha256d", header))
          validShare == shareTarget.set /\ bigHsh >= shareTarget.v /\ bigHsh <= j.target
          code == j.currencyConfig.Code
          mainSolve == IF bigHsh <= j.target
                       THEN PutSolve(<<>>, code, BlockSolve(j.height, j.target, bigHsh))
                       ELSE <<>>
          r == solAuxLoop(j, bigHsh, 1,
                          [solves |-> mainSolve, currencies |-> <<code>>])
      IN  [solves |-> r.solves, validShare |-> validShare,
           currencies |-> r.currencies, err |-> "", bigHsh |-> bigHsh,
           header |-> header]

\* Job.checkSolSolve: the header carries the submitted nTime, the hash is sha256d
checkSolSolve(j, solveData, shareTarget, hashOk) ==
    LET header == SolutionHeader(j, solveData) IN
    IF ~hashOk THEN SolveError("PoWHash")
    ELSE
      LET bigHsh == HashToBig(PoWHash("sha256d", header))
          validShare == shareTarget.set /\ bigHsh >= shareTarget.v
          code == j.currencyConfig.Code
          mainSolve == IF bigHsh <= j.target
                       THEN PutSolve(<<>>, code, BlockSolve(j.height, j.target, bigHsh))
                       ELSE <<>>
          r == solAuxLoop(j, bigHsh, 1,
                          [solves |-> mainSolve, currencies |-> <<code>>])
      IN  [solves |-> r.solves, validShare |-> validShare,
           currencies |-> r.currencies, err |-> "", bigHsh |-> bigHsh,
           header |-> header]

\* Job.CheckSolves
CheckSolves(j, solveData, shareTarget, hashOk) ==
    IF solveData.type = "ExtranonceSolve"
    THEN checkExtranonceSolve(j, solveData, shareTarget, hashOk)
    ELSE IF solveData.type = "SolutionSolve"
    THEN checkSolSolve(j, solveData, shareTarget, hashOk)
    ELSE SolveError("Unrecognized solve data")

----------------------------------------------------------------------------
(* The job specification: a job is built from a template map, then flushed *)
(* and checked against submitted solves                                     *)

NoCall == [op |-> "none"]
NoRet == [status |-> "none", err |-> "", merkleSize |-> {}, merkleBase |-> <<>>]

Init ==
    /\ templates \in TemplateMaps
    /\ ret = NoRet
    /\ job = NoJob
    /\ call = NoCall

CallNewJobFromTemplates ==
    /\ ret.status = "none"
    /\ \E order \in Orders(DOMAIN templates) :
         \E r \in {NewJobFromTemplates(templates, order)} :
         /\ ret' = [status |-> r.status, err |-> r.err,
                    merkleSize |-> r.merkleSize, merkleBase |-> r.merkleBase]
         /\ job' = r.job
    /\ call' = [op |-> "NewJobFromTemplates"]
    /\ UNCHANGED templates

CallSetFlush ==
    /\ ret.status = "ok"
    /\ \E prev \in FlushInputs :
         \E r \in {SetFlush(job, prev)} :
         /\ job' = r.job
         /\ call' = [op |-> "SetFlush", prev |-> prev, drop |-> r.drop,
                     val |-> r.val, before |-> job, writes |-> r.writes]
    /\ UNCHANGED <<templates, ret>>

CallCheckSolves ==
    /\ ret.status = "ok"
    /\ \E c \in SolveCalls :
         \E r \in {CheckSolves(job, c[1], c[2], c[3])} :
         call' = [op |-> "CheckSolves", solveData |-> c[1],
                  shareTarget |-> c[2], solves |-> r.solves,
                  validShare |-> r.validShare, currencies |-> r.currencies,
                  err |-> r.err, bigHsh |-> r.bigHsh, header |-> r.header]
    /\ UNCHANGED <<templates, ret, job>>

CallGetStratumParams ==
    /\ ret.status = "ok"
    /\ call' = [op |-> "GetStratumParams", params |-> GetStratumParams(job)]
    /\ UNCHANGED <<templates, ret, job>>

CallGetZCashStratumParams ==
    /\ ret.status = "ok"
    /\ call' = [op |-> "GetZCashStratumParams", params |-> GetZCashStratumParams(job)]
    /\ UNCHANGED <<templates, ret, job>>

Next ==
    \/ CallNewJobFromTemplates
    \/ CallSetFlush
    \/ CallCheckSolves
    \/ CallGetStratumParams
    \/ CallGetZCashStratumParams

Spec == Init /\ [][Next]_vars


----------------------------------------------------------------------------
(* The version specification: the version rewrites applied to sample words *)

VersionBits == {0, 8, 9, 10, 11, 16, 29}

\* the template versions: the words of at most MaxVersionBits of these bits
Versions == {w \in SUBSET VersionBits : Cardinality(w) <= MaxVersionBits}

Configs == {NoMultiAlgo} \cup MultiAlgoLayouts

VersionInputs ==
    {[op |-> "input", version |-> v, chainID |-> 0, config |-> c, algo |-> a] :
        v \in Versions, c \in Configs, a \in AlgoNames}
    \cup
    {[op |-> "input", version |-> v, chainID |-> id, config |-> c, algo |-> "sha256d"] :
        v \in Versions, id \in ChainIDs,
        c \in {NoMultiAlgo} \cup {l \in MultiAlgoLayouts : l.MultiAlgoBitWidth = 3
                                                           /\ l.MultiAlgoBitShift = 9}}

InitVersion ==
    /\ templates = <<>>
    /\ ret = NoRet
    /\ job = NoJob
    /\ call \in VersionInputs

CallSetAlgoVersion ==
    /\ call.op = "input"
    /\ call' = [call EXCEPT !.op = "setAlgoVersion"]
                 @@ [out |-> setAlgoVersion(call.version, call.config, call.algo)]
    /\ UNCHANGED <<templates, ret, job>>

CallNewAuxChainJob ==
    /\ call.op = "input"
    /\ \E r \in {NewAuxChainJob([BlockTemplate(1, 1, call.chainID)
                                        EXCEPT !.Version = call.version],
                                   call.config, call.algo)} :
           call' = [call EXCEPT !.op = "NewAuxChainJob"]
                     @@ [err |-> r.err,
                         word |-> AuxPoWVersion(call.version, call.chainID),
                         blockHeader |-> IF r.err = "" THEN r.acj.blockHeader
                                         ELSE [version |-> <<>>, time |-> <<>>]]
    /\ UNCHANGED <<templates, ret, job>>

NextVersion == CallSetAlgoVersion \/ CallNewAuxChainJob

SpecVersion == InitVersion /\ [][NextVersion]_vars

----------------------------------------------------------------------------
(* The merkle root specification: jobs whose main template has a merkle     *)
(* branch of each length, asked for their ZCash params and checked against  *)
(* solves                                                                   *)

\* the merkle branches of up to MaxBranch of three sibling hashes
RECURSIVE BranchesOfLen(_)
BranchesOfLen(n) ==
    IF n = 0 THEN {<<>>}
    ELSE {Append(b, Digest(d)) : b \in BranchesOfLen(n - 1), d \in {1, 2, 300}}

MerkleBranches == UNION {BranchesOfLen(n) : n \in 0..MaxBranch}

\* the template maps whose main template carries the branch
WithBranch(t, branch) ==
    [k \in DOMAIN t |->
        IF k.TemplateType = "getblocktemplate"
        THEN [t[k] EXCEPT !.MerkleBranch = branch] ELSE t[k]]

RootMaps == {WithBranch(t, b) : t \in OpMaps, b \in MerkleBranches}

InitRoot ==
    /\ templates \in RootMaps
    /\ \E order \in Orders(DOMAIN templates) :
         \E r \in {NewJobFromTemplates(templates, order)} :
         /\ ret = [status |-> r.status, err |-> r.err,
                   merkleSize |-> r.merkleSize, merkleBase |-> r.merkleBase]
         /\ job = r.job
    /\ call = NoCall

\* one call on each job
RootGetZCashStratumParams == call = NoCall /\ CallGetZCashStratumParams

RootCheckSolves == call = NoCall /\ CallCheckSolves

NextRoot == RootGetZCashStratumParams \/ RootCheckSolves

SpecRoot == InitRoot /\ [][NextRoot]_vars

----------------------------------------------------------------------------
(* The key specification: the duplicate-share key of sample solves *)

\* SolutionSolve.GetKey and ExtranonceSolve.GetKey: the strings of the fields
\* joined in the order of the code
GetKey(m) ==
    IF m.type = "SolutionSolve"
    THEN m.nonce2 \o m.solution \o m.nTime
    ELSE m.extraNonce2 \o m.extraNonce1 \o m.nTime \o m.nonce

\* the byte strings a field of a submitted solve holds
FieldValues == {<<0>>, <<1>>, <<0, 1>>}

KeySolves ==
    {[type |-> "ExtranonceSolve", nonce |-> n, nTime |-> t,
      extraNonce1 |-> e1, extraNonce2 |-> e2] :
        n \in FieldValues, t \in FieldValues, e1 \in FieldValues, e2 \in FieldValues}
    \cup
    {[type |-> "SolutionSolve", nonce1 |-> n1, nonce2 |-> n2, nTime |-> t,
      solution |-> sol] :
        n1 \in FieldValues, n2 \in FieldValues, t \in FieldValues,
        sol \in FieldValues}

InitKey ==
    /\ templates = <<>>
    /\ ret = NoRet
    /\ job = NoJob
    /\ call \in {[op |-> "input", solveData |-> m, key |-> <<>>] : m \in KeySolves}

CallGetKey ==
    /\ call.op = "input"
    /\ call' = [call EXCEPT !.op = "GetKey", !.key = GetKey(call.solveData)]
    /\ UNCHANGED <<templates, ret, job>>

NextKey == CallGetKey

SpecKey == InitKey /\ [][NextKey]_vars

----------------------------------------------------------------------------
(* The chain specification: jobs built one after another, each flushed with *)
(* the second value that the SetFlush of the last job kept returned         *)

\* the template maps with what NewJobFromTemplates returns for them, where
\* it returns a job
Built ==
    {b \in UNION {{[templates |-> t, r |-> NewJobFromTemplates(t, o)] :
                      o \in Orders(DOMAIN t)} : t \in OpMaps} :
        b.r.status = "ok"}

BuiltJobs == {b.r.job : b \in Built}

\* no job yet: the caller holds a nil interface value
InitChain ==
    /\ templates = <<>>
    /\ ret = NoRet
    /\ job = NoJob
    /\ call = [op |-> "chain", jobs |-> 0, kept |-> 0, prev |-> NilValue,
               keptHeight |-> 0, passed |-> NilValue, lastKeptHeight |-> 0,
               drop |-> FALSE]

\* a template refresh: the new job is built and flushed against the value
\* kept from the last job that was not dropped; passed and lastKeptHeight
\* record what this SetFlush was given and the main height of that last job
NextJob ==
    /\ call.op = "chain" /\ call.jobs < MaxJobs
    /\ \E b \in Built :
         \E n \in {b.r} :
         /\ \E r \in {SetFlush(n.job, call.prev)} :
              /\ templates' = b.templates
              /\ ret' = [status |-> n.status, err |-> n.err,
                         merkleSize |-> n.merkleSize, merkleBase |-> n.merkleBase]
              /\ job' = r.job
              /\ call' = [op |-> "chain", jobs |-> call.jobs + 1,
                          kept |-> IF r.drop THEN call.kept ELSE call.kept + 1,
                          prev |-> IF r.drop THEN call.prev ELSE r.val,
                          keptHeight |-> IF r.drop THEN call.keptHeight
                                         ELSE n.job.height,
                          passed |-> call.prev,
                          lastKeptHeight |-> call.keptHeight,
                          drop |-> r.drop]

NextChain == NextJob

SpecChain == InitChain /\ [][NextChain]_vars

----------------------------------------------------------------------------
(* The keep-alive specification: the loop of Service.KeepAlive against an   *)
(* etcd that can refuse writes and that expires the entry after its TTL     *)

\* no entry under the status key
NoEntry == <<>>

\* the statuses pushed to the service; 0 is the empty status it starts with
Statuses == 0..MaxPushes

\* json.Marshal of the labels and the status
Marshal(labels, status) == <<labels, status>>

\* the value the loop serializes from the labels and the last status
CurrentValue == Marshal("labels", call.lastStatus)

InitKeepAlive ==
    /\ templates = <<>>
    /\ ret = NoRet
    /\ job = NoJob
    /\ call = [op |-> "KeepAlive", lastValue |-> <<>>, lastStatus |-> 0,
               entry |-> NoEntry, etcdUp |-> TRUE, setFailed |-> FALSE,
               pushes |-> 0, outages |-> 0]

\* the rest of one round of the loop after the select: serialize, choose
\* between a refresh and a full write, and Set; etcd refuses a Set while it
\* is down and a refresh (PrevExist) of an entry that does not exist
KeepAliveSet(lastStatus) ==
    LET value == Marshal("labels", lastStatus) IN
    IF value = call.lastValue
    THEN IF call.etcdUp /\ call.entry # NoEntry
         THEN [call EXCEPT !.lastStatus = lastStatus, !.setFailed = FALSE]
         ELSE [call EXCEPT !.lastStatus = lastStatus, !.setFailed = TRUE]
    ELSE IF call.etcdUp
         THEN [call EXCEPT !.lastStatus = lastStatus, !.lastValue = value,
                           !.entry = value, !.setFailed = FALSE]
         ELSE [call EXCEPT !.lastStatus = lastStatus, !.lastValue = value,
                           !.setFailed = TRUE]

\* a round started by the timer
KeepAliveTimer ==
    /\ call.op = "KeepAlive"
    /\ call' = KeepAliveSet(call.lastStatus)
    /\ UNCHANGED <<templates, ret, job>>

\* a round started by a status pushed on the channel
KeepAlivePush ==
    /\ call.op = "KeepAlive" /\ call.pushes < MaxPushes
    /\ \E status \in Statuses :
         call' = [KeepAliveSet(status) EXCEPT !.pushes = @ + 1]
    /\ UNCHANGED <<templates, ret, job>>

\* the TTL of the entry runs out: no Set has refreshed it
Expire ==
    /\ call.op = "KeepAlive"
    /\ call.entry # NoEntry /\ call.setFailed
    /\ call' = [call EXCEPT !.entry = NoEntry]
    /\ UNCHANGED <<templates, ret, job>>

EtcdFail ==
    /\ call.op = "KeepAlive"
    /\ call.etcdUp /\ call.outages < MaxOutages
    /\ call' = [call EXCEPT !.etcdUp = FALSE, !.outages = @ + 1]
    /\ UNCHANGED <<templates, ret, job>>

EtcdRecover ==
    /\ call.op = "KeepAlive"
    /\ ~call.etcdUp
    /\ call' = [call EXCEPT !.etcdUp = TRUE]
    /\ UNCHANGED <<templates, ret, job>>

NextKeepAlive ==
    KeepAliveTimer \/ KeepAlivePush \/ Expire \/ EtcdFail \/ EtcdRecover

\* the loop keeps running and etcd comes back after each outage
SpecKeepAlive ==
    /\ InitKeepAlive /\ [][NextKeepAlive]_vars
    /\ WF_vars(KeepAliveTimer) /\ WF_vars(EtcdRecover)

----------------------------------------------------------------------------
(* The watcher specification: the goroutine of Service.ServiceWatcher fed   *)
(* with the events of the etcd watcher                                      *)

ServiceIDs == 1..MaxServices

\* a nil *ServiceStatus
NilStatus == [nil |-> TRUE, value |-> 0]

\* the status parsed from a node whose value is v
StatusOf(v) == [nil |-> FALSE, value |-> v]

NodeValues == 0..3

\* the maps of tracked services after the first pull
ServiceMaps == UNION {[D -> {StatusOf(v) : v \in NodeValues \ {0}}] :
                        D \in SUBSET ServiceIDs}

WatchActions == {"expire", "set", "update", "delete"}

InitWatcher ==
    /\ templates = <<>>
    /\ ret = NoRet
    /\ job = NoJob
    /\ call \in {[op |-> "ServiceWatcher", services |-> m, before |-> m,
                   action |-> "", serviceID |-> 0, sent |-> <<>>] :
                     m \in ServiceMaps}

\* delete(services, serviceID)
Delete(services, serviceID) ==
    [i \in DOMAIN services \ {serviceID} |-> services[i]]

\* services[serviceID]: the nil pointer for a missing key
Get(services, serviceID) ==
    IF serviceID \in DOMAIN services THEN services[serviceID] ELSE NilStatus

\* services[serviceID] = serviceStatus
Put(services, serviceID, serviceStatus) ==
    [i \in DOMAIN services \cup {serviceID} |->
        IF i = serviceID THEN serviceStatus ELSE services[i]]

\* one round of the watcher loop for an event that watcher.Next returned:
\* the tracked services afterwards and the updates sent on the channel
WatcherRound(services, action, serviceID, nodeValue) ==
    LET exists == serviceID \in DOMAIN services
        Update(status, act) == [ServiceID |-> serviceID, Status |-> status,
                                Action |-> act]
    IN
    IF action = "expire"
    THEN IF exists
         THEN [services |-> Delete(services, serviceID),
               sent |-> <<Update(Get(Delete(services, serviceID), serviceID),
                                 "removed")>>]
         ELSE [services |-> services, sent |-> <<>>]
    ELSE IF action = "set" \/ action = "update"
    THEN [services |-> Put(services, serviceID, StatusOf(nodeValue)),
          sent |-> <<Update(StatusOf(nodeValue),
                            IF exists THEN "updated" ELSE "added")>>]
    ELSE [services |-> services, sent |-> <<>>]

WatchEvent ==
    /\ call.op = "ServiceWatcher"
    /\ \E action \in WatchActions, serviceID \in ServiceIDs :
         \E nodeValue \in (IF action \in {"set", "update"} THEN NodeValues \ {0}
                            ELSE {0}) :
         \E r \in {WatcherRound(call.services, action, serviceID, nodeValue)} :
            call' = [op |-> "ServiceWatcher", services |-> r.services,
                     before |-> call.services, action |-> action,
                     serviceID |-> serviceID, sent |-> r.sent]
    /\ UNCHANGED <<templates, ret, job>>

NextWatcher == WatchEvent

SpecWatcher == InitWatcher /\ [][NextWatcher]_vars

----------------------------------------------------------------------------
(* The concurrent specification: one goroutine runs SetFlush on a job while *)
(* another runs a params getter on the same job, with no synchronization    *)

Getters == {"GetStratumParams", "GetZCashStratumParams"}

\* the fields of the job that a getter reads, in the order it reads them
GetterReads(getter) ==
    IF getter = "GetStratumParams"
    THEN <<"prevBlockHash", "coinbase1", "coinbase2", "merkleBranch", "version",
           "bits", "time", "cleanJobs">>
    ELSE <<"coinbase1", "coinbase2", "merkleBranch", "version", "prevBlockHash",
           "time", "bits", "cleanJobs">>

InitRace ==
    /\ templates = <<>>
    /\ ret = NoRet
    /\ job \in BuiltJobs
    /\ call \in {[op |-> "race", prev |-> p, getter |-> g,
                   flush |-> "start", pending |-> {}, drop |-> FALSE,
                   read |-> 0, cleanJobs |-> {}] :
                     p \in FlushInputs, g \in Getters}

\* SetFlush up to its assignment: the comparisons have chosen the branch
FlushCompare ==
    /\ call.op = "race" /\ call.flush = "start"
    /\ \E r \in {SetFlush(job, call.prev)} :
         call' = [call EXCEPT !.flush = IF r.writes = {} THEN "done" ELSE "write",
                              !.pending = r.writes,
                              !.drop = r.drop]
    /\ UNCHANGED <<templates, ret, job>>

\* the assignment j.cleanJobs = true and the return
FlushWrite ==
    /\ call.op = "race" /\ call.flush = "write"
    /\ job' = SetFlush(job, call.prev).job
    /\ call' = [call EXCEPT !.flush = "done", !.pending = {}]
    /\ UNCHANGED <<templates, ret>>

\* the getter reads its next field; a read of a field whose assignment by the
\* other goroutine is pending is unordered with it and yields either value
GetterRead ==
    /\ call.op = "race" /\ call.read < Len(GetterReads(call.getter))
    /\ LET field == GetterReads(call.getter)[call.read + 1] IN
       IF field = "cleanJobs"
       THEN \E v \in (IF field \in call.pending THEN BOOLEAN ELSE {job.cleanJobs}) :
              call' = [call EXCEPT !.read = @ + 1, !.cleanJobs = {v}]
       ELSE call' = [call EXCEPT !.read = @ + 1]
    /\ UNCHANGED <<templates, ret, job>>

NextRace == FlushCompare \/ FlushWrite \/ GetterRead

SpecRace == InitRace /\ [][NextRace]_vars


----------------------------------------------------------------------------
(* Properties *)

\* the chains of a job: the main chain and every aux chain
ChainsOf(j) ==
    {[code |-> j.currencyConfig.Code, height |-> j.height, target |-> j.target,
      flushAux |-> FALSE, main |-> TRUE]}
    \cup {[code |-> j.auxChains[i].currencyConfig.Code,
           height |-> j.auxChains[i].height, target |-> j.auxChains[i].target,
           flushAux |-> j.auxChains[i].currencyConfig.FlushAux, main |-> FALSE] :
            i \in DOMAIN j.auxChains}

FlushedWithHeights == call.op = "SetFlush" /\ call.prev.kind = "heights"

\* C1: when the height of any chain of the job, main or aux, is lower than
\* its entry in prev_heights, SetFlush returns drop = true.
C1_AnyChainBackwardDrops ==
    (FlushedWithHeights
        /\ \E c \in ChainsOf(call.before) :
              c.height < Lookup(call.prev.heights, c.code))
    => call.drop

\* C2: when the main height is greater than its entry in prev_heights,
\* SetFlush sets clean_jobs, returns drop = false and returns the heights map
\* of the job, which holds the main chain and every aux chain.
C2_MainAdvanceReturnsHeights ==
    (FlushedWithHeights
        /\ call.before.height
              > Lookup(call.prev.heights, call.before.currencyConfig.Code))
    => /\ job.cleanJobs
       /\ ~call.drop
       /\ call.val.kind = "heights"
       /\ call.val.heights = call.before.heights
       /\ DOMAIN call.before.heights = {c.code : c \in ChainsOf(call.before)}

\* no chain went backward, the main height did not advance and no aux chain
\* with flush_aux advanced
NothingToFlush(j, prev) ==
    /\ \A c \in ChainsOf(j) : c.height >= Lookup(prev, c.code)
    /\ \A c \in ChainsOf(j) :
          (c.main \/ c.flushAux) => c.height <= Lookup(prev, c.code)

Field(w, shift, width) == {i - shift : i \in {x \in w : shift <= x /\ x < shift + width}}

\* C4: for a multi-algo chain, setAlgoVersion returns a word whose bits
\* [shift, shift + width) are the code of the algorithm and whose other bits
\* are those of the input version.
C4_VersionBitRewrite ==
    (call.op = "setAlgoVersion" /\ call.config.MultiAlgo)
    => LET shift == call.config.MultiAlgoBitShift
           width == call.config.MultiAlgoBitWidth
           inside == shift..(shift + width - 1)
       IN  /\ Field(call.out, shift, width) = Bits(AlgoCode(call.config, call.algo))
           /\ call.out \ inside = call.version \ inside

\* C5: for every accepted aux template, the version word before the
\* multi-algo rewrite has bit 8 set and bits [16, 32) equal to the chain id,
\* and without a multi-algo layout these are the first four bytes of the aux
\* block header, least significant byte first.
C5_AuxPoWVersionBits ==
    (call.op = "NewAuxChainJob" /\ call.err = "")
    => /\ 8 \in call.word
       /\ Field(call.word, 16, 16) = Bits(call.chainID)
       /\ ~call.config.MultiAlgo =>
             /\ call.blockHeader.version[2] % 2 = 1
             /\ call.blockHeader.version[3] = call.chainID % 256
             /\ call.blockHeader.version[4] = call.chainID \div 256

\* the slot of the claim, in integer arithmetic, for a size up to 2^15
SlotRef(chainID, size) ==
    ((((0 * 1103515245 + 12345 + chainID) % size) * (1103515245 % size)) + 12345) % size

\* C6: when the packer finishes, merkle_size is a power of two, every aux
\* chain holds the slot its chain id maps to, no two aux chains share a slot,
\* merkle_size is the smallest power of two with pairwise distinct slots, and
\* for the chain ids 1 and 42 it is 2.
C6_PackerSlots ==
    ret.status = "ok" =>
      LET aux == job.auxChains
          size == Val(ret.merkleSize)
      IN  /\ Cardinality(ret.merkleSize) = 1
          /\ ret.merkleSize \subseteq 0..15
          /\ \A i \in DOMAIN aux :
                LET slot == Bits(SlotRef(aux[i].chainID, size)) IN
                /\ slot \in DOMAIN ret.merkleBase
                /\ ret.merkleBase[slot] = HeaderHash(aux[i])
          /\ \A i, k \in DOMAIN aux :
                i # k => SlotRef(aux[i].chainID, size) # SlotRef(aux[k].chainID, size)
          /\ Cardinality(DOMAIN ret.merkleBase) = Len(aux)
          /\ \A e \in 0..14 :
                Pow2(e) < size =>
                   \E i, k \in DOMAIN aux :
                      /\ i # k
                      /\ SlotRef(aux[i].chainID, Pow2(e)) = SlotRef(aux[k].chainID, Pow2(e))
          /\ {aux[i].chainID : i \in DOMAIN aux} = {1, 42} => size = 2

C6_Witness ==
    /\ ret.status = "ok"
    /\ Len(job.auxChains) = 2
    /\ ret.merkleSize = {3}

\* the template maps from which a Job may be built
WellFormedTemplates(t) ==
    /\ Cardinality({k \in DOMAIN t : k.TemplateType = "getblocktemplate"}) = 1
    /\ \A k \in DOMAIN t :
          /\ k.TemplateType \in {"getblocktemplate", "getblocktemplate_aux"}
          /\ k.Currency \in Registered
          /\ t[k].ok
          /\ k.TemplateType = "getblocktemplate_aux" => t[k].ChainID # 0

\* C7: NewJobFromTemplates returns a Job only for a map with exactly one main
\* template, known template types, registered currencies and non-zero aux
\* chain ids; for every other map it returns an error and a nil Job, in
\* whatever order the map is visited.
C7_ConstructionAtomic ==
    ret.status # "none" =>
      /\ job.built => (ret.status = "ok" /\ WellFormedTemplates(templates))
      /\ ret.status = "ok" => job.built
      /\ ~WellFormedTemplates(templates) => (ret.status = "error" /\ job = NoJob)

C7_Witness ==
    /\ ret.status = "error"
    /\ ret.err = "Null chainid"
    /\ job = NoJob
    /\ \E k \in DOMAIN templates : k.TemplateType = "getblocktemplate"

\* C8: NewJobFromTemplates always returns, either a Job or an error, and the
\* aux chain ids of a returned Job are pairwise distinct.
C8_AlwaysReturns ==
    ret.status # "none" =>
      /\ ret.status \in {"ok", "error"}
      /\ ret.status = "ok" =>
            \A i, k \in DOMAIN job.auxChains :
               i # k => job.auxChains[i].chainID # job.auxChains[k].chainID

CheckedWithoutError == call.op = "CheckSolves" /\ call.err = ""

\* C9: for every CheckSolves call that returns no error, the chain codes that
\* receive a BlockSolve are exactly those of the chains, main or aux, whose
\* target is at least pow_int.
C9_TargetMonotonicity ==
    CheckedWithoutError =>
      DOMAIN call.solves
         = {c.code : c \in {x \in ChainsOf(job) : call.bigHsh <= x.target}}

C9_Witness ==
    /\ CheckedWithoutError
    /\ DOMAIN call.solves # {}
    /\ job.currencyConfig.Code \notin DOMAIN call.solves
    /\ Len(job.auxChains) = 2

\* C10: valid_share is true exactly when share_target is set and pow_int is at
\* least share_target, whether or not a BlockSolve is recorded, and every
\* chain with pow_int at most its target gets its BlockSolve also when
\* share_target is nil.
C10_ShareIndependentOfSolves ==
    CheckedWithoutError =>
      /\ call.validShare
            <=> (call.shareTarget.set /\ call.bigHsh >= call.shareTarget.v)
      /\ ~call.shareTarget.set =>
            \A c \in ChainsOf(job) :
               call.bigHsh <= c.target => c.code \in DOMAIN call.solves

C10_Witness ==
    /\ CheckedWithoutError
    /\ call.validShare
    /\ call.solves = <<>>
    /\ call.solveData.type = "SolutionSolve"

----------------------------------------------------------------------------
(* Concurrent use of a job *)

\* the getter is about to read a field that the SetFlush running beside it is
\* about to assign
RacingRead ==
    /\ call.op = "race"
    /\ call.read < Len(GetterReads(call.getter))
    /\ GetterReads(call.getter)[call.read + 1] \in call.pending

\* C11: no operation on a built job writes a field of it, so a SetFlush and a
\* params getter run concurrently on one job never have a write of a field
\* pending while the other is at its read of that field.
C11_NoWriteRacesWithRead == ~RacingRead

----------------------------------------------------------------------------
(* The time of the header of an ExtranonceSolve *)

ExtranonceChecked ==
    /\ call.op = "CheckSolves"
    /\ call.err = ""
    /\ call.solveData.type = "ExtranonceSolve"

\* C12: the header hashed for an ExtranonceSolve carries the time of the job:
\* a solve that differs from the one checked only in its nTime yields the
\* same header, the same pow_int, the same valid_share and the same
\* BlockSolves.
C12_HeaderTimeIsJobTime ==
    ExtranonceChecked =>
      \A t \in {s.nTime : s \in ExtranonceSolves} :
         LET other == CheckSolves(job, [call.solveData EXCEPT !.nTime = t],
                                  call.shareTarget, TRUE)
         IN  /\ other.header = call.header
             /\ other.bigHsh = call.bigHsh
             /\ other.validShare = call.validShare
             /\ other.solves = call.solves

\* an ExtranonceSolve whose nTime is not the time of the job solved a block
C12_Witness ==
    /\ ExtranonceChecked
    /\ call.solveData.nTime \o <<0, 0, 0>> # job.time
    /\ call.solves # <<>>
    /\ call.validShare

----------------------------------------------------------------------------
(* The merkle root of the ZCash params *)

RECURSIVE RootFrom(_, _, _)
\* the root replaced, for each branch element from the left, by the double
\* SHA256 of the root followed by the element
RootFrom(merkleBranch, i, root) ==
    IF i > Len(merkleBranch) THEN root
    ELSE RootFrom(merkleBranch, i + 1, Sha256d(root \o merkleBranch[i]))

\* C13: the root of GetZCashStratumParams is the merkle root rebuilt from the
\* double SHA256 of coinbase1, eight zero bytes and coinbase2 along the merkle
\* branch, and it is the root that checkSolSolve writes into its header.
C13_ZCashRootIsMerkleRoot ==
    (call.op = "GetZCashStratumParams") =>
      /\ call.params.rootHash
            = EncodeToString(RootFrom(job.merkleBranch, 1,
                                      Sha256d(PlaceholderCoinbase(job))))
      /\ call.params.rootHash = EncodeToString(SolutionRoot(job))

----------------------------------------------------------------------------
(* The duplicate-share key *)

\* the solves of the same variant whose fields are as wide as those of m
SameWidths(m) ==
    {o \in KeySolves :
        /\ o.type = m.type
        /\ \A f \in DOMAIN m \ {"type"} : Len(o[f]) = Len(m[f])}

\* C14: two solves of the same variant with the same field widths have equal
\* keys only if each of their fields is equal.
C14_KeyDeterminesFields ==
    (call.op = "GetKey") =>
      \A o \in SameWidths(call.solveData) :
         GetKey(o) = call.key => o = call.solveData

----------------------------------------------------------------------------
(* Chained flush evaluation *)

\* the job just flushed had a job before it that was not dropped
FlushedAfterKeptJob ==
    /\ call.op = "chain"
    /\ call.jobs > 0
    /\ call.kept - (IF call.drop THEN 0 ELSE 1) > 0

\* C15: in a chain of jobs, each flushed with the value returned for the last
\* job that was not dropped, a job whose main height is lower than the main
\* height of that last job is dropped.
C15_ChainedBackwardDrops ==
    (FlushedAfterKeptJob /\ job.height < call.lastKeptHeight) => call.drop

----------------------------------------------------------------------------
(* The clean_jobs flag *)

\* C16: the clean_jobs flag of a job that NewJobFromTemplates returned is true
\* in every state, after any SetFlush calls, and both params getters report
\* it as true.
C16_CleanJobsAlwaysTrue ==
    /\ job.built =>
          /\ job.cleanJobs
          /\ GetStratumParams(job).cleanJobs
          /\ GetZCashStratumParams(job).cleanJobs
    /\ call.op \in {"GetStratumParams", "GetZCashStratumParams"}
          => call.params.cleanJobs

\* a SetFlush that found no height advanced, on a job whose flag is still true
C16_Witness ==
    /\ call.op = "SetFlush"
    /\ call.prev.kind = "heights"
    /\ ~call.drop
    /\ call.writes = {}
    /\ job.built /\ job.cleanJobs
    /\ GetStratumParams(job).cleanJobs

----------------------------------------------------------------------------
(* The status entry of Service.KeepAlive *)

\* C17: with the loop running and etcd accepting writes again after each
\* outage, the status entry exists again with the current value of the labels
\* and the status, again and again.
C17_EntryRecovers == []<>(call.entry = CurrentValue)

----------------------------------------------------------------------------
(* The expire events of Service.ServiceWatcher *)

\* C18: an expire event for a tracked service removes it from the tracked
\* services and sends one update, "removed", with the status the service had
\* in the tracked services; an expire event for an untracked service sends
\* nothing.
C18_ExpireSendsLastStatus ==
    (call.op = "ServiceWatcher" /\ call.action = "expire") =>
      IF call.serviceID \in DOMAIN call.before
      THEN /\ call.serviceID \notin DOMAIN call.services
           /\ Len(call.sent) = 1
           /\ call.sent[1].Action = "removed"
           /\ ~call.sent[1].Status.nil
           /\ call.sent[1].Status = call.before[call.serviceID]
      ELSE call.sent = <<>>

====
